---------------------------- MODULE Spec2Model ----------------------------
(***************************************************************************)
(* topicssearch.py: index a list of URLs by the topics an external         *)
(* prediction service returns for them, and search the topics.             *)
(*                                                                         *)
(* Strings are sequences: a source line and a uri are sequences of         *)
(* one-character strings, a topics field is a sequence of words (labels    *)
(* and separators).                                                        *)
(*                                                                         *)
(* Two specifications:                                                     *)
(*   Spec         the command line program (__main__, flush, index,        *)
(*                topicssearch) run any number of times against one index  *)
(*                directory, with a second process reading the directory;  *)
(*   SpecPredict  get_prediction and add_document applied to one line and  *)
(*                one response of the prediction service, over a wider     *)
(*                set of lines and responses.                              *)
(***************************************************************************)
EXTENDS Integers, Sequences, FiniteSets, TLC

(* ------------------------------ bounds -------------------------------- *)

\* lines of the source file
MaxLines == 3

\* topic entries in one response of the prediction service
MaxTopics == 6

\* characters of a source line (SpecPredict)
MaxLineLen == 3

(* ------------------------- program constants -------------------------- *)

\* get_prediction(url, topics_count=5)
TOPICS_COUNT == 5

\* the status code of a successful prediction
STATUS_OK == 200

\* u" / ".join(topics)
SEPARATOR == " / "

(* ------------------------------ strings ------------------------------- *)

\* a source line is a sequence of bytes; "C3" "A9" is the UTF-8 encoding of
\* the one character "e'" (U+00E9)
Whitespace == {" ", "\n"}

Bytes == {"a", " ", "\n", "C3", "A9"}

RECURSIVE IsUtf8(_)
\* whether bytes.decode('utf-8') succeeds
IsUtf8(s) ==
    IF s = <<>> THEN TRUE
    ELSE IF Head(s) = "C3"
         THEN Len(s) >= 2 /\ s[2] = "A9" /\ IsUtf8(Tail(Tail(s)))
    ELSE IF Head(s) = "A9" THEN FALSE
    ELSE IsUtf8(Tail(s))

RECURSIVE Utf8Decode(_)
\* bytes.decode('utf-8') of a valid UTF-8 byte string: one entry per character
Utf8Decode(s) ==
    IF s = <<>> THEN <<>>
    ELSE IF Head(s) = "C3" /\ Len(s) >= 2
         THEN <<"e'">> \o Utf8Decode(Tail(Tail(s)))
    ELSE <<Head(s)>> \o Utf8Decode(Tail(s))

RECURSIVE LStrip(_)
\* str.strip(), leading part
LStrip(s) ==
    IF s # <<>> /\ Head(s) \in Whitespace THEN LStrip(Tail(s)) ELSE s

RECURSIVE RStrip(_)
\* str.strip(), trailing part
RStrip(s) ==
    IF s # <<>> /\ s[Len(s)] \in Whitespace
    THEN RStrip(SubSeq(s, 1, Len(s) - 1))
    ELSE s

\* url.strip()
Strip(s) == RStrip(LStrip(s))

RECURSIVE JoinNoSeparator(_, _)
\* mutant of Join: the words are put together without the separator
JoinNoSeparator(sep, words) ==
    IF words = <<>> THEN <<>>
    ELSE <<Head(words)>> \o JoinNoSeparator(sep, Tail(words))

RECURSIVE Join(_, _)
\* sep.join(words)
Join(sep, words) ==
    IF words = <<>> THEN <<>>
    ELSE IF Len(words) = 1 THEN words
    ELSE <<Head(words), sep>> \o Join(sep, Tail(words))

(* ----------------------- the prediction service ----------------------- *)

\* the topic entries a response can carry, each a ranked list of labels
Entries ==
    << <<"Politics", "Government">>, <<"Economy">>, <<"politics", "Politics">> >>

\* a list of n topic entries, the entries taken in turn from Entries
TopicsOf(n, shift) ==
    [k \in 1..n |-> Entries[((k + shift) % Len(Entries)) + 1]]

TopicLists == {TopicsOf(n, shift) : n \in 0..MaxTopics, shift \in 0..(Len(Entries) - 1)}

Titles == {"Breaking News", "Weather"}

\* what urllib2.urlopen(req) and response.read() give for one request:
\*   transport  "ok", or the exception urlopen raises
\*   text       "json", "badutf8" (bytes that are no UTF-8), "notjson"
\*   code, title, topics   the JSON body's status.code, body.extracted_title,
\*                         body.topics
Response(transport, text, code, title, topics) ==
    [transport |-> transport, text |-> text, code |-> code,
     title |-> title, topics |-> topics]

TransportFailures == {"HTTPError", "BadStatusLine", "URLError", "timeout"}

AllResponses ==
    {Response(t, "json", 0, "", <<>>) : t \in TransportFailures}
    \cup {Response("ok", x, 0, "", <<>>) : x \in {"badutf8", "notjson"}}
    \cup {Response("ok", "json", c, "", <<>>) : c \in {404, 500}}
    \cup {Response("ok", "json", STATUS_OK, t, ts) : t \in Titles, ts \in TopicLists}

\* the responses the indexing runs of Spec draw from for a url: the service's
\* prediction for the resource at the url, or one of the failures
Service(url) ==
    { IF url = <<"a">>
      THEN Response("ok", "json", STATUS_OK, "Breaking News", <<Entries[1], Entries[2]>>)
      ELSE Response("ok", "json", STATUS_OK, "Weather", <<Entries[2]>>),
      Response("HTTPError", "json", 0, "", <<>>),
      Response("ok", "json", 500, "", <<>>),
      Response("URLError", "json", 0, "", <<>>),
      Response("ok", "notjson", 0, "", <<>>) }

Returned(title, topics) ==
    [kind |-> "ok", title |-> title, topics |-> topics, exc |-> "none"]

Raised(kind, exc) ==
    [kind |-> kind, title |-> "", topics |-> <<>>, exc |-> exc]

NoResult == [kind |-> "none", title |-> "", topics |-> <<>>, exc |-> "none"]

\* mutant of FirstLabels: the last label of each topic entry is taken
LastLabels(topics) == [k \in 1..Len(topics) |-> topics[k][Len(topics[k])]]

\* [topic['labels'][0]['label'] for topic in j['body']['topics']]
FirstLabels(topics) == [k \in 1..Len(topics) |-> topics[k][1]]

\* get_prediction: what the call returns or raises for the response
\* (topics_count goes into the request only)
get_prediction(resp, topics_count) ==
    IF resp.transport \in {"HTTPError", "BadStatusLine"}
    THEN Raised("PredictFailed", resp.transport)
    ELSE IF resp.transport # "ok"
    THEN Raised("Error", resp.transport)
    ELSE IF resp.text = "badutf8"
    THEN Raised("PredictFailed", "Wrong Encoding")
    ELSE IF resp.text # "json"
    THEN Raised("Error", "ValueError")
    ELSE IF resp.code = STATUS_OK
    THEN Returned(resp.title, FirstLabels(resp.topics))
    ELSE Raised("PredictFailed", "status code")

(* --------------------------- the index store -------------------------- *)

Document(uri, title, topics) == [uri |-> uri, title |-> title, topics |-> topics]

\* mutant of add_document: the document is staged ahead of the earlier ones
add_document_first(staged, uri, title, topics) ==
    <<Document(Utf8Decode(uri), title, Join(SEPARATOR, topics))>> \o staged

\* mutant of add_document: a uri already staged is not staged again
add_document_unique(staged, uri, title, topics) ==
    IF \E k \in 1..Len(staged) : staged[k].uri = Utf8Decode(uri)
    THEN staged
    ELSE Append(staged, Document(Utf8Decode(uri), title, Join(SEPARATOR, topics)))

\* add_document: the writer's staged documents after the call
add_document(staged, uri, title, topics) ==
    Append(staged, Document(Utf8Decode(uri), title, Join(SEPARATOR, topics)))

\* INDEX_DIR on disk: whether the directory exists, whether it holds a table
\* of contents, and the documents of the segments the table of contents lists
Store(dir, toc, docs) == [dir |-> dir, toc |-> toc, docs |-> docs]

NoStore == Store(FALSE, FALSE, <<>>)

\* flush(): shutil.rmtree(INDEX_DIR); a missing directory raises inside the
\* try and is passed over
flush(st) == NoStore

\* os.mkdir(INDEX_DIR) when the directory does not exist
mkdir(st) == IF st.dir THEN st ELSE Store(TRUE, FALSE, <<>>)

\* mutant of create_in: an index already in the directory is opened as it is
create_in_keeps(st) == IF st.toc THEN Store(TRUE, TRUE, st.docs) ELSE Store(TRUE, TRUE, <<>>)

\* whoosh create_in(INDEX_DIR, schema): removes the files of the index in the
\* directory and writes a table of contents with no segment
create_in(st) == Store(TRUE, TRUE, <<>>)

\* state: "none", "open", "committed", or "failed" (commit raised)
Writer(state, base, staged) == [state |-> state, base |-> base, staged |-> staged]

NoWriter == Writer("none", <<>>, <<>>)

\* ix.writer(): the writer starts from the segments of the current table of
\* contents
writer_of(st) == Writer("open", st.docs, <<>>)

\* mutant of commit: the segment of the staged documents is left out of the
\* new table of contents
commit_without_segment(st, w) == Store(st.dir, TRUE, w.base)

\* writer.commit(): one new table of contents listing the writer's segments
\* and the segment of the staged documents
commit(st, w) == Store(st.dir, TRUE, w.base \o w.staged)

\* what open_dir(INDEX_DIR) and a searcher give a reader: no index
\* (EmptyIndexError), or the documents of the table of contents
View(st) ==
    IF st.dir /\ st.toc
    THEN [kind |-> "index", docs |-> st.docs]
    ELSE [kind |-> "missing", docs |-> <<>>]

NoView == [kind |-> "none", docs |-> <<>>]

(* ------------------------------ searching ----------------------------- *)

\* LowercaseFilter of the StemmingAnalyzer
Lower(w) ==
    CASE w = "Politics" -> "politics"
      [] w = "Economy" -> "economy"
      [] w = "Government" -> "government"
      [] OTHER -> w

\* StemFilter of the StemmingAnalyzer (Porter stems of the words used here)
Stem(w) ==
    CASE w = "politics" -> "polit"
      [] w = "economy" -> "economi"
      [] w = "government" -> "govern"
      [] w = "sports" -> "sport"
      [] OTHER -> w

\* the terms the StemmingAnalyzer indexes for a topics field; the tokenizer
\* drops the separators
Analyze(topics) ==
    {Stem(Lower(topics[k])) : k \in {n \in 1..Len(topics) : topics[n] # SEPARATOR}}

Queries == {"politics"}

\* mutant of Matching: every document is a hit
MatchingAll(docs, q) == docs

\* mutant of Matching: searcher.search(query, limit=1)
MatchingFirst(docs, q) ==
    LET hits == {k \in 1..Len(docs) : Stem(Lower(q)) \in Analyze(docs[k].topics)}
    IN IF hits = {} THEN <<>>
       ELSE <<docs[CHOOSE k \in hits : \A j \in hits : k <= j]>>

RECURSIVE Matching(_, _)
\* searcher.search(query, limit=None): every document with the query's term
Matching(docs, q) ==
    IF docs = <<>> THEN <<>>
    ELSE IF Stem(Lower(q)) \in Analyze(Head(docs).topics)
         THEN <<Head(docs)>> \o Matching(Tail(docs), q)
    ELSE Matching(Tail(docs), q)

(* ------------------------------- state -------------------------------- *)

VARIABLES
    store,      \* INDEX_DIR on disk
    opts,       \* the options of the running invocation
    src,        \* the source file of the running invocation
    pc,         \* where the running invocation is
    lineno,     \* the line of the source the loop of index() is at
    writer,     \* the whoosh writer of index()
    exc,        \* the exception propagating, "none" when there is none
    out,        \* what the invocation has printed
    results,    \* the tuples topicssearch yielded
    commits,    \* history: calls of writer.commit() in this invocation
    log,        \* history: per processed line, how get_prediction ended
                \* ("ok", "PredictFailed", or "Error" for any other exception)
    before,     \* history: INDEX_DIR when the invocation started
    indexed,    \* history: an indexing session has committed into the
                \* INDEX_DIR that is on disk
    seen,       \* what a second process that opened INDEX_DIR just saw
    line,       \* SpecPredict: the source line
    resp,       \* SpecPredict: the response of the prediction service
    result      \* SpecPredict: what get_prediction returned or raised

vars ==
    <<store, opts, src, pc, lineno, writer, exc, out, results, commits, log,
      before, indexed, seen, line, resp, result>>

fnvars == <<line, resp, result>>

\* the lines a source file is made of: "a" and " e' ", each with its newline
LineSet == { <<"a", "\n">>, <<" ", "C3", "A9", " ", "\n">> }

RECURSIVE SeqsUpTo(_, _)
\* the sequences over S of length at most n
SeqsUpTo(S, n) ==
    IF n = 0 THEN {<<>>}
    ELSE LET shorter == SeqsUpTo(S, n - 1)
         IN shorter \cup {Append(q, x) : q \in {r \in shorter : Len(r) = n - 1}, x \in S}

Source(readable, lines) == [readable |-> readable, lines |-> lines]

NoSource == Source(FALSE, <<>>)

\* the source files: one that cannot be opened, and the readable ones
Sources == {NoSource} \cup {Source(TRUE, ls) : ls \in SeqsUpTo(LineSet, MaxLines)}

\* optparse's options: -i, -q, -s, -f, -K, -H (query "" when -q is not given)
Options ==
    [doindex : BOOLEAN, query : Queries \cup {""}, sourcefile : BOOLEAN,
     doflush : BOOLEAN, apikey : BOOLEAN, apihost : BOOLEAN]

\* mutant of IndexArgsGiven: only the source file is asked for
IndexArgsGivenSourceOnly(o) == o.sourcefile

\* the three checks of __main__ under if options.doindex
IndexArgsGiven(o) == o.sourcefile /\ o.apikey /\ o.apihost

\* an invocation: its options, and the source file options.sourcefile names
Invocations ==
    {<<o, s>> \in Options \X Sources :
        (o.doindex /\ IndexArgsGiven(o)) \/ s = NoSource}

NoOptions ==
    [doindex |-> FALSE, query |-> "", sourcefile |-> FALSE, doflush |-> FALSE,
     apikey |-> FALSE, apihost |-> FALSE]

\* the variables of one process, before __main__ runs
Start(o, s) ==
    /\ opts' = o
    /\ src' = s
    /\ lineno' = 0
    /\ writer' = NoWriter
    /\ exc' = "none"
    /\ out' = <<>>
    /\ results' = <<>>
    /\ commits' = 0
    /\ log' = <<>>
    /\ seen' = NoView

Init ==
    /\ store = NoStore
    /\ \E inv \in Invocations :
        /\ opts = inv[1]
        /\ src = inv[2]
    /\ pc = "main"
    /\ lineno = 0
    /\ writer = NoWriter
    /\ exc = "none"
    /\ out = <<>>
    /\ results = <<>>
    /\ commits = 0
    /\ log = <<>>
    /\ before = NoStore
    /\ indexed = FALSE
    /\ seen = NoView
    /\ line = <<>>
    /\ resp = Response("ok", "json", 0, "", <<>>)
    /\ result = NoResult

(* ------------------------------ __main__ ------------------------------ *)

\* parser.error(...): the checks of the options, in the order of __main__
ConfigError ==
    /\ pc = "main"
    /\ \/ ~(opts.doindex \/ opts.query # "")
       \/ opts.doindex /\ ~IndexArgsGiven(opts)
    /\ exc' = "ConfigError"
    /\ pc' = "exit"
    /\ seen' = NoView
    /\ UNCHANGED <<indexed, store, opts, src, lineno, writer, out, results, commits, log,
                   before, fnvars>>

\* mutant of MainIndex: the query is run ahead of the indexing
MainIndexQueryFirst ==
    /\ pc = "main"
    /\ opts.doindex /\ IndexArgsGiven(opts)
    /\ pc' = IF opts.query # "" THEN "query"
             ELSE IF opts.doflush THEN "flush" ELSE "index"
    /\ seen' = NoView
    /\ UNCHANGED <<indexed, store, opts, src, lineno, writer, exc, out, results, commits,
                   log, before, fnvars>>

\* if options.doindex: ... if options.doflush: flush() ... index(sourcefile)
MainIndex ==
    /\ pc = "main"
    /\ opts.doindex /\ IndexArgsGiven(opts)
    /\ pc' = IF opts.doflush THEN "flush" ELSE "index"
    /\ seen' = NoView
    /\ UNCHANGED <<indexed, store, opts, src, lineno, writer, exc, out, results, commits,
                   log, before, fnvars>>

\* if options.query: ... without -i
MainQuery ==
    /\ pc = "main"
    /\ ~opts.doindex /\ opts.query # ""
    /\ pc' = "query"
    /\ seen' = NoView
    /\ UNCHANGED <<indexed, store, opts, src, lineno, writer, exc, out, results, commits,
                   log, before, fnvars>>

\* shutil.rmtree(INDEX_DIR) raises OSError when there is no such directory
rmtree_raises(st) == ~st.dir

\* mutant of flush_except: flush() has no except clause
flush_except_nothing(e) == FALSE

\* except: pass -- the exceptions flush() passes over
flush_except(e) == TRUE

\* if options.doflush: flush()
Flush ==
    /\ pc = "flush"
    /\ store' = flush(store)
    /\ IF rmtree_raises(store) /\ ~flush_except("OSError")
       THEN exc' = "OSError" /\ pc' = "exit"
       ELSE exc' = exc /\ pc' = "index"
    /\ indexed' = FALSE
    /\ seen' = NoView
    /\ UNCHANGED <<opts, src, lineno, writer, out, results, commits, log,
                   before, fnvars>>

(* ------------------------------- index -------------------------------- *)

\* if not os.path.exists(INDEX_DIR): os.mkdir(INDEX_DIR)
Mkdir ==
    /\ pc = "index"
    /\ store' = mkdir(store)
    /\ pc' = "create_in"
    /\ seen' = NoView
    /\ UNCHANGED <<indexed, opts, src, lineno, writer, exc, out, results, commits, log,
                   before, fnvars>>

\* ix = create_in(INDEX_DIR, schema)
CreateIn ==
    /\ pc = "create_in"
    /\ store' = create_in(store)
    /\ pc' = "writer"
    /\ seen' = NoView
    /\ UNCHANGED <<indexed, opts, src, lineno, writer, exc, out, results, commits, log,
                   before, fnvars>>

\* create_in raises (the directory cannot be written): outside the try, the
\* exception leaves index() at once
CreateInFails ==
    /\ pc = "create_in"
    /\ exc' = "StoreError"
    /\ pc' = "exit"
    /\ seen' = NoView
    /\ UNCHANGED <<indexed, store, opts, src, lineno, writer, out, results, commits, log,
                   before, fnvars>>

\* writer = ix.writer()
OpenWriter ==
    /\ pc = "writer"
    /\ writer' = writer_of(store)
    /\ pc' = "open"
    /\ seen' = NoView
    /\ UNCHANGED <<indexed, store, opts, src, lineno, exc, out, results, commits, log,
                   before, fnvars>>

\* with open(sourcefile,'r') as s: for url in s.readlines():
OpenSource ==
    /\ pc = "open"
    /\ src.readable
    /\ lineno' = 1
    /\ pc' = "loop"
    /\ seen' = NoView
    /\ UNCHANGED <<indexed, store, opts, src, writer, exc, out, results, commits, log,
                   before, fnvars>>

\* mutant of finally_commits: the commit follows the loop instead of being in
\* a finally
finally_commits_on_success(e) == e = "none"

\* which exceptions leave the try with the commit in its finally run
finally_commits(e) == TRUE

\* where an exception raised inside the try of index() goes
Unwind(e) == IF finally_commits(e) THEN "commit" ELSE "exit"

\* open(sourcefile) raises IOError, inside the try
OpenSourceFails ==
    /\ pc = "open"
    /\ ~src.readable
    /\ exc' = "IOError"
    /\ pc' = Unwind("IOError")
    /\ seen' = NoView
    /\ UNCHANGED <<indexed, store, opts, src, lineno, writer, out, results, commits, log,
                   before, fnvars>>

\* mutant of Handled: the loop body has no except clause
HandledNothing(kind) == FALSE

\* except PredictFailed, e: the exceptions the loop body recovers from
Handled(kind) == kind = "PredictFailed"

\* url=url.strip(); print "indexing",url
Indexing(n) == <<"indexing", Strip(src.lines[n])>>

\* mutant of IndexLine: every staged document is written through to the
\* table of contents at once
IndexLineWriteThrough ==
    /\ pc = "loop"
    /\ lineno <= Len(src.lines)
    /\ \E r \in Service(Strip(src.lines[lineno])) :
        LET p == get_prediction(r, TOPICS_COUNT) IN
        /\ p.kind = "ok"
        /\ writer' = [writer EXCEPT !.staged =
                        add_document(@, Strip(src.lines[lineno]), p.title, p.topics)]
    /\ store' = commit(store, writer')
    /\ out' = Append(out, Indexing(lineno))
    /\ log' = Append(log, "ok")
    /\ lineno' = lineno + 1
    /\ seen' = NoView
    /\ UNCHANGED <<indexed, opts, src, pc, exc, results, commits, before, fnvars>>

\* one line: get_prediction returns and add_document stages the document
IndexLine ==
    /\ pc = "loop"
    /\ lineno <= Len(src.lines)
    /\ \E r \in Service(Strip(src.lines[lineno])) :
        LET p == get_prediction(r, TOPICS_COUNT) IN
        /\ p.kind = "ok"
        /\ writer' = [writer EXCEPT !.staged =
                        add_document(@, Strip(src.lines[lineno]), p.title, p.topics)]
    /\ out' = Append(out, Indexing(lineno))
    /\ log' = Append(log, "ok")
    /\ lineno' = lineno + 1
    /\ seen' = NoView
    /\ UNCHANGED <<indexed, store, opts, src, pc, exc, results, commits, before, fnvars>>

\* one line: get_prediction raises PredictFailed; print "Prediction Failed:",e
IndexLinePredictFailed ==
    /\ pc = "loop"
    /\ lineno <= Len(src.lines)
    /\ \E r \in Service(Strip(src.lines[lineno])) :
        LET p == get_prediction(r, TOPICS_COUNT) IN
        /\ p.kind # "ok"
        /\ Handled(p.kind)
        /\ log' = Append(log, p.kind)
    /\ out' = out \o <<Indexing(lineno), <<"Prediction Failed:">> >>
    /\ lineno' = lineno + 1
    /\ seen' = NoView
    /\ UNCHANGED <<indexed, store, opts, src, pc, writer, exc, results, commits, before,
                   fnvars>>

\* one line: get_prediction raises something the loop body does not catch
IndexLineRaises ==
    /\ pc = "loop"
    /\ lineno <= Len(src.lines)
    /\ \E r \in Service(Strip(src.lines[lineno])) :
        LET p == get_prediction(r, TOPICS_COUNT) IN
        /\ p.kind # "ok"
        /\ ~Handled(p.kind)
        /\ exc' = p.exc
        /\ pc' = Unwind(p.exc)
        /\ log' = Append(log, p.kind)
    /\ out' = Append(out, Indexing(lineno))
    /\ seen' = NoView
    /\ UNCHANGED <<indexed, store, opts, src, lineno, writer, results, commits, before,
                   fnvars>>

\* readlines() is exhausted: the try ends normally
EndOfSource ==
    /\ pc = "loop"
    /\ lineno > Len(src.lines)
    /\ pc' = "commit"
    /\ seen' = NoView
    /\ UNCHANGED <<indexed, store, opts, src, lineno, writer, exc, out, results, commits,
                   log, before, fnvars>>

\* finally: writer.commit(); then the pending exception goes on, or index()
\* returns to __main__
Commit ==
    /\ pc = "commit"
    /\ store' = commit(store, writer)
    /\ writer' = [writer EXCEPT !.state = "committed"]
    /\ commits' = commits + 1
    /\ pc' = IF exc = "none" /\ opts.query # "" THEN "query" ELSE "exit"
    /\ indexed' = TRUE
    /\ seen' = NoView
    /\ UNCHANGED <<opts, src, lineno, exc, out, results, log, before, fnvars>>

\* writer.commit() raises: its exception replaces a pending one
CommitFails ==
    /\ pc = "commit"
    /\ writer' = [writer EXCEPT !.state = "failed"]
    /\ commits' = commits + 1
    /\ exc' = "StoreError"
    /\ pc' = "exit"
    /\ seen' = NoView
    /\ UNCHANGED <<indexed, store, opts, src, lineno, out, results, log, before, fnvars>>

(* ---------------------------- topicssearch ---------------------------- *)

\* print res[1],'(',res[0],')'
Rendered(docs) == [k \in 1..Len(docs) |-> <<docs[k].title, "(", docs[k].uri, ")">>]

\* for res in topicssearch(unicode(options.query)): print ...
Search ==
    /\ pc = "query"
    /\ View(store).kind = "index"
    /\ results' = Matching(View(store).docs, opts.query)
    /\ out' = out \o Rendered(results')
    /\ pc' = "exit"
    /\ seen' = NoView
    /\ UNCHANGED <<indexed, store, opts, src, lineno, writer, exc, commits, log, before,
                   fnvars>>

\* open_dir(INDEX_DIR) raises: there is no index in the directory
SearchFails ==
    /\ pc = "query"
    /\ View(store).kind # "index"
    /\ exc' = "EmptyIndexError"
    /\ pc' = "exit"
    /\ seen' = NoView
    /\ UNCHANGED <<indexed, store, opts, src, lineno, writer, out, results, commits, log,
                   before, fnvars>>

(* ------------------------- the environment ---------------------------- *)

\* the process ends: nothing of it is left but INDEX_DIR
Exit ==
    /\ pc = "exit"
    /\ Start(NoOptions, NoSource)
    /\ pc' = "ended"
    /\ before' = store
    /\ UNCHANGED <<indexed, store, fnvars>>

\* the program is started again on the same INDEX_DIR
NextInvocation ==
    /\ pc = "ended"
    /\ \E inv \in Invocations :
        /\ opts' = inv[1]
        /\ src' = inv[2]
    /\ pc' = "main"
    /\ UNCHANGED <<indexed, store, lineno, writer, exc, out, results, commits, log, before,
                   seen, fnvars>>

\* a second process opens INDEX_DIR and reads every document (topicssearch
\* up to the searcher), between two steps of the invocation
Reader ==
    /\ seen = NoView
    /\ seen' = View(store)
    /\ UNCHANGED <<indexed, store, opts, src, pc, lineno, writer, exc, out, results,
                   commits, log, before, fnvars>>

Next ==
    \/ ConfigError
    \/ MainIndex
    \/ MainQuery
    \/ Flush
    \/ Mkdir
    \/ CreateIn
    \/ CreateInFails
    \/ OpenWriter
    \/ OpenSource
    \/ OpenSourceFails
    \/ IndexLine
    \/ IndexLinePredictFailed
    \/ IndexLineRaises
    \/ EndOfSource
    \/ Commit
    \/ CommitFails
    \/ Search
    \/ SearchFails
    \/ Exit
    \/ NextInvocation
    \/ Reader

Spec == Init /\ [][Next]_vars

(* --------------- get_prediction and add_document alone ---------------- *)

\* the source lines of SpecPredict: UTF-8 text of at most MaxLineLen bytes
Lines == {l \in SeqsUpTo(Bytes, MaxLineLen) : IsUtf8(l)}

InitPredict ==
    /\ store = NoStore
    /\ opts = NoOptions
    /\ src = NoSource
    /\ pc = "fn_predict"
    /\ lineno = 0
    /\ writer = writer_of(create_in(NoStore))
    /\ exc = "none"
    /\ out = <<>>
    /\ results = <<>>
    /\ commits = 0
    /\ log = <<>>
    /\ before = NoStore
    /\ indexed = FALSE
    /\ seen = NoView
    /\ line \in Lines
    /\ resp \in AllResponses
    /\ result = NoResult

\* title, topics = get_prediction(url, topics_count=5)
FnPredict ==
    /\ pc = "fn_predict"
    /\ result' = get_prediction(resp, TOPICS_COUNT)
    /\ pc' = IF result'.kind = "ok" THEN "fn_add" ELSE "fn_done"
    /\ UNCHANGED <<indexed, store, opts, src, lineno, writer, exc, out, results, commits,
                   log, before, seen, line, resp>>

\* add_document(writer, url, title, topics), url the stripped line
FnAddDocument ==
    /\ pc = "fn_add"
    /\ writer' = [writer EXCEPT !.staged =
                    add_document(@, Strip(line), result.title, result.topics)]
    /\ pc' = "fn_done"
    /\ UNCHANGED <<indexed, store, opts, src, lineno, exc, out, results, commits, log,
                   before, seen, fnvars>>

NextPredict ==
    \/ FnPredict
    \/ FnAddDocument

SpecPredict == InitPredict /\ [][NextPredict]_vars

(* ======================== the indexing session ======================== *)

UriSeq(docs) == [k \in 1..Len(docs) |-> docs[k].uri]

RECURSIVE UrisOf(_, _)
\* the uris of the lines whose prediction succeeded, in the order of the lines
UrisOf(lg, lines) ==
    IF lg = <<>> \/ lines = <<>> THEN <<>>
    ELSE (IF Head(lg) = "ok" THEN <<Utf8Decode(Strip(Head(lines)))>> ELSE <<>>)
         \o UrisOf(Tail(lg), Tail(lines))

\* M: the lines of this run whose prediction succeeded
Successes == {k \in 1..Len(log) : log[k] = "ok"}

PredictFailures == {k \in 1..Len(log) : log[k] = "PredictFailed"}

Reports == {k \in 1..Len(out) : out[k][1] = "Prediction Failed:"}

\* C1: once the run has committed, the index holds exactly one document per
\* line whose prediction succeeded (M documents, repeated URLs repeated, in
\* the order of the lines), and it can be opened even when M = 0.
C1_OneDocumentPerSuccess ==
    writer.state = "committed" =>
        /\ View(store).kind = "index"
        /\ Len(View(store).docs) = Cardinality(Successes)
        /\ UriSeq(View(store).docs) = UrisOf(log, src.lines)

\* three lines, two of them the same URL and both predicted, one failed
C1_Witness ==
    /\ writer.state = "committed"
    /\ Len(src.lines) = 3
    /\ Cardinality(Successes) = 2
    /\ Len(store.docs) = 2
    /\ store.docs[1].uri = store.docs[2].uri

C3_CommittedOnceAfterLastUrl ==
    /\ commits <= 1
    /\ (pc \in {"query", "exit"} /\ writer.state # "none") => commits = 1
    /\ (commits = 1 /\ src.readable) => Len(log) = Len(src.lines)
    /\ writer.state = "open" => View(store).docs = writer.base

EmptyIndex == [kind |-> "index", docs |-> <<>>]

\* C4 as claimed: whatever a second process reads while a run is under way is
\* the generation before the run or the generation the run has committed
\* (stated for runs on a store that held documents).
C4_ReaderSeesOldOrNew ==
    (seen # NoView /\ before.docs # <<>>) =>
        \/ seen = View(before)
        \/ writer.state = "committed" /\ seen = View(store)

\* C4 as amended: a second process reads the generation before the run, no
\* index at all (after the flush), an index without documents (after
\* create_in), or the whole generation the run has committed; never a part
\* of the documents the run stages.
C4_ReaderNeverSeesPart ==
    seen # NoView =>
        \/ seen = View(before)
        \/ seen.kind = "missing"
        \/ seen = EmptyIndex
        \/ /\ writer.state = "committed"
           /\ seen = [kind |-> "index", docs |-> writer.base \o writer.staged]

\* a read between two stagings, of a store that held documents before the run
C4_Witness ==
    /\ seen = EmptyIndex
    /\ before.docs # <<>>
    /\ writer.state = "open"
    /\ Len(writer.staged) = 1
    /\ lineno = 2
    /\ Len(src.lines) = 3

\* C5: a run without the flush flag ends with every document of the earlier
\* generation D and the M documents of the run.
C5_NoFlushAppends ==
    (writer.state = "committed" /\ ~opts.doflush /\ exc = "none") =>
        /\ Len(store.docs) = Len(before.docs) + Len(writer.staged)
        /\ \A k \in 1..Len(before.docs) :
              \E j \in 1..Len(store.docs) : store.docs[j] = before.docs[k]

\* C6: after a run with the flush flag the committed generation is exactly
\* the documents the run staged, whatever the earlier runs left.
C6_FlushKeepsOnlyThisRun ==
    (writer.state = "committed" /\ opts.doflush) =>
        /\ View(store).kind = "index"
        /\ View(store).docs = writer.staged

\* a flushed run on a store that held other documents
C6_Witness ==
    /\ writer.state = "committed"
    /\ opts.doflush
    /\ before.toc
    /\ before.docs # <<>>
    /\ writer.staged # <<>>
    /\ store.docs # before.docs
    /\ \A k \in 1..Len(before.docs) :
          \A j \in 1..Len(store.docs) : store.docs[j] # before.docs[k]

\* C8: an indexing session ends with an exception only when the store could
\* not be created or the commit failed; otherwise every line is processed.
C8_OnlyStoreFailuresAbort ==
    (pc = "exit" /\ opts.doindex /\ IndexArgsGiven(opts) /\ src.readable) =>
        /\ exc \in {"none", "StoreError"}
        /\ exc = "none" => Len(log) = Len(src.lines)

(* ================== get_prediction and add_document =================== *)

\* the prediction attempt failed: the transport, the body's text or the
\* status code in the body
AttemptFailed ==
    \/ resp.transport # "ok"
    \/ resp.text # "json"
    \/ resp.code # STATUS_OK

\* C7: every failed prediction attempt (transport failure, undecodable body,
\* status code other than 200) leaves get_prediction as PredictFailed.
C7_EveryFailureIsPredictFailed ==
    (pc = "fn_done" /\ AttemptFailed) => result.kind = "PredictFailed"

IsWhitespace(s) == \A k \in 1..Len(s) : s[k] \in Whitespace

\* u is s without its leading and trailing whitespace
IsStripOf(u, s) ==
    /\ u = <<>> \/ (u[1] \notin Whitespace /\ u[Len(u)] \notin Whitespace)
    /\ \E a, b \in 0..Len(s) :
        /\ a + b <= Len(s)
        /\ u = SubSeq(s, a + 1, Len(s) - b)
        /\ IsWhitespace(SubSeq(s, 1, a))
        /\ IsWhitespace(SubSeq(s, Len(s) - b + 1, Len(s)))

\* C9: the document staged for a successful prediction has the stripped line
\* (as text) for uri, the response's extracted title for title, and for
\* topics the first label of every topic entry, in the order of the entries,
\* each two separated by " / ", unchanged in case and with repeats kept.
C9_StagedDocument ==
    (pc = "fn_done" /\ result.kind = "ok") =>
        /\ Len(writer.staged) = 1
        /\ LET doc == writer.staged[1]
               n == Len(resp.topics)
           IN /\ \E u \in Lines : IsStripOf(u, line) /\ doc.uri = Utf8Decode(u)
              /\ doc.title = resp.title
              /\ Len(doc.topics) = IF n = 0 THEN 0 ELSE 2 * n - 1
              /\ \A k \in 1..n : doc.topics[2 * k - 1] = resp.topics[k][1]
              /\ \A k \in 1..(n - 1) : doc.topics[2 * k] = " / "

\* a padded line, and a response whose labels repeat and differ in case only
C9_Witness ==
    /\ pc = "fn_done"
    /\ result.kind = "ok"
    /\ Len(writer.staged) = 1
    /\ Len(line) > Len(writer.staged[1].uri) + 1
    /\ writer.staged[1].uri # <<>>
    /\ Len(resp.topics) >= 4
    /\ writer.staged[1].topics[1] = "Politics"
    /\ writer.staged[1].topics[5] = "politics"
    /\ writer.staged[1].topics[7] = "Politics"

\* C10 as claimed: get_prediction returns at most topics_count labels.
C10_AtMostTopicsCount ==
    (pc = "fn_done" /\ result.kind = "ok") => Len(result.topics) <= TOPICS_COUNT

\* C10 as amended: get_prediction returns the first label of every topic
\* entry of the response, in order: as many labels as the response has
\* entries, hence at most topics_count only when the service sent no more.
C10_OneLabelPerEntry ==
    (pc = "fn_done" /\ result.kind = "ok") =>
        /\ Len(result.topics) = Len(resp.topics)
        /\ \A k \in 1..Len(resp.topics) : result.topics[k] = resp.topics[k][1]
        /\ Len(result.topics) <= TOPICS_COUNT <=> Len(resp.topics) <= TOPICS_COUNT

\* a response with more topic entries than were asked for
C10_Witness ==
    /\ pc = "fn_done"
    /\ result.kind = "ok"
    /\ Len(resp.topics) > TOPICS_COUNT
    /\ Len(result.topics) > TOPICS_COUNT

(* ===================== order, search, configuration =================== *)

\* the line of the j-th successful prediction, counting in source order
NthSuccess(j) ==
    CHOOSE n \in Successes : Cardinality({m \in Successes : m < n}) = j - 1

\* C11: at every point of a session the uris staged so far are, in order,
\* the stripped lines whose prediction succeeded so far.
C11_StagedInSourceOrder ==
    writer.state # "none" =>
        /\ Len(writer.staged) = Cardinality(Successes)
        /\ \A j \in 1..Len(writer.staged) :
              writer.staged[j].uri = Utf8Decode(Strip(src.lines[NthSuccess(j)]))

\* two different URLs staged around a line that failed, before the commit
C11_Witness ==
    /\ writer.state = "open"
    /\ Len(log) = 3
    /\ log[2] # "ok"
    /\ Len(writer.staged) = 2
    /\ writer.staged[1].uri = <<"e'">>
    /\ writer.staged[2].uri = <<"a">>

\* the labels of a document's topics field
LabelsOf(doc) == {doc.topics[k] : k \in {n \in 1..Len(doc.topics) : doc.topics[n] # " / "}}

\* the query's word is one of the document's labels, whatever the case
HasLabel(doc, q) == \E w \in LabelsOf(doc) : Lower(w) = Lower(q)

\* the documents of the committed generation with the query's word as label
Hits == {k \in 1..Len(store.docs) : HasLabel(store.docs[k], opts.query)}

\* C12: once an indexing session has committed into the store (even one
\* without a single document), a query finds an index to open, and a query
\* that matches no document yields no result and no error.
C12_NoMatchIsEmptyNotError ==
    /\ (pc = "query" /\ opts.doindex) => indexed
    /\ (pc = "query" /\ indexed) => View(store).kind = "index"
    /\ (pc = "exit" /\ opts.query # "" /\ ~opts.doindex /\ indexed) => exc = "none"
    /\ (pc = "exit" /\ opts.query # "" /\ exc = "none" /\ Hits = {}) => results = <<>>

\* a query alone, on a store whose documents do not match it
C12_Witness ==
    /\ pc = "exit"
    /\ ~opts.doindex
    /\ opts.query = "politics"
    /\ indexed
    /\ store.docs # <<>>
    /\ Hits = {}
    /\ results = <<>>
    /\ exc = "none"

\* C13: a flush when INDEX_DIR does not exist raises nothing and leaves
\* nothing behind; the indexing that follows creates the index and commits
\* the M documents of the run, as on a fresh store.
C13_FlushWithoutStore ==
    (opts.doindex /\ opts.doflush /\ ~before.dir /\ pc \notin {"main", "flush"}) =>
        /\ exc # "OSError"
        /\ pc = "index" => (store = NoStore /\ exc = "none")
        /\ writer.state = "committed" =>
            /\ store = Store(TRUE, TRUE, writer.staged)
            /\ Len(store.docs) = Cardinality(Successes)

\* a flushed run on a directory that did not exist, two documents committed
C13_Witness ==
    /\ opts.doflush
    /\ ~before.dir
    /\ writer.state = "committed"
    /\ exc = "none"
    /\ Len(store.docs) = 2
    /\ Cardinality(Successes) = 2

\* the urls printed by print "indexing",url, one per call of get_prediction
Requested == SelectSeq(out, LAMBDA o : o[1] = "indexing")

\* C14: a session sends one prediction request for every line of the source,
\* in the order of the lines, never a second one for a line.
C14_OneRequestPerLine ==
    /\ pc = "loop" => lineno = Len(log) + 1
    /\ Len(Requested) = Len(log)
    /\ \A k \in 1..Len(Requested) : Requested[k][2] = Strip(src.lines[k])
    /\ (pc \in {"query", "exit"} /\ writer.state # "none" /\ src.readable)
         => Len(log) = Len(src.lines)

\* the argument combinations the program needs are not all there
Misconfigured(o) ==
    \/ ~o.doindex /\ o.query = ""
    \/ o.doindex /\ (~o.sourcefile \/ ~o.apikey \/ ~o.apihost)

\* C15: with a required argument missing the invocation does nothing but
\* report the configuration error: no flush, no store creation or opening, no
\* prediction request, no query, and the store stays as it was.
C15_ConfigErrorBeforeAnything ==
    /\ (pc \notin {"main", "ended"} /\ Misconfigured(opts))
         => (pc = "exit" /\ exc = "ConfigError")
    /\ exc = "ConfigError"
         => /\ store = before
            /\ writer = NoWriter
            /\ lineno = 0 /\ log = <<>>
            /\ commits = 0
            /\ results = <<>> /\ out = <<>>

\* index and flush asked for without the API key, on a store with documents
C15_Witness ==
    /\ pc = "exit" /\ exc = "ConfigError"
    /\ opts.doindex /\ opts.doflush /\ opts.sourcefile /\ ~opts.apikey
    /\ store.docs # <<>>

\* how many of the positions ks of docs hold the document d
CountIn(docs, ks, d) == Cardinality({k \in ks : docs[k] = d})

\* C16: a search returns every document of the committed generation that has
\* the query's word among its labels, however many there are, each with its
\* uri, title and topics; with K such documents at least K are returned.
C16_SearchReturnsEveryMatch ==
    (pc = "exit" /\ opts.query # "" /\ exc = "none") =>
        /\ \A k \in Hits :
               CountIn(store.docs, Hits, store.docs[k])
                 <= CountIn(results, DOMAIN results, store.docs[k])
        /\ Len(results) >= Cardinality(Hits)
        /\ \A j \in DOMAIN results :
               /\ \E k \in DOMAIN store.docs : results[j] = store.docs[k]
               /\ out[Len(out) - Len(results) + j]
                    = <<results[j].title, "(", results[j].uri, ")">>

\* three documents committed, two of them with the query's label
C16_Witness ==
    /\ pc = "exit" /\ opts.query = "politics" /\ exc = "none"
    /\ Len(store.docs) = 3
    /\ Cardinality(Hits) = 2
    /\ Len(results) = 2

\* the session is left by an exception raised inside the try of index() that
\* is no PredictFailed
Aborted == exc \in {"URLError", "ValueError", "IOError"}

AnswerOf(url) ==
    CHOOSE r \in Service(url) :
        r.transport = "ok" /\ r.text = "json" /\ r.code = STATUS_OK

\* the document of a line whose prediction succeeded
DocumentOf(ln) ==
    LET a == AnswerOf(Strip(ln))
    IN Document(Utf8Decode(Strip(ln)), a.title,
                Join(" / ", [k \in 1..Len(a.topics) |-> a.topics[k][1]]))

RECURSIVE GenerationOf(_, _)
\* the documents of a source and of the outcomes of its lines' predictions
GenerationOf(lg, lines) ==
    IF lg = <<>> \/ lines = <<>> THEN <<>>
    ELSE (IF Head(lg) = "ok" THEN <<DocumentOf(Head(lines))>> ELSE <<>>)
         \o GenerationOf(Tail(lg), Tail(lines))

IndexAndQuery == opts.doindex /\ opts.query # ""

\* the positions of docs whose document has the word q as a label
HitsIn(docs, q) == {k \in 1..Len(docs) : HasLabel(docs[k], q)}

\* C19: with -i and -q together the flush comes first, then the whole
\* indexing with its commit, then the query, which reads the generation this
\* invocation committed.
C19_FlushIndexThenQuery ==
    IndexAndQuery =>
        /\ pc = "flush" =>
              (store = before /\ writer = NoWriter /\ log = <<>> /\ commits = 0)
        /\ (pc = "index" /\ opts.doflush) => store = NoStore
        /\ pc \in {"flush", "index", "create_in", "writer", "open", "loop", "commit"} =>
              /\ results = <<>>
              /\ \A k \in DOMAIN out : out[k][1] \in {"indexing", "Prediction Failed:"}
        /\ pc = "query" =>
              /\ exc = "none"
              /\ commits = 1 /\ writer.state = "committed"
              /\ lineno = Len(src.lines) + 1 /\ Len(log) = Len(src.lines)
              /\ View(store).kind = "index"
              /\ View(store).docs = writer.staged
        /\ (pc = "exit" /\ exc = "none") =>
              /\ writer.state = "committed"
              /\ \A j \in DOMAIN results :
                     \E k \in HitsIn(writer.staged, opts.query) :
                         results[j] = writer.staged[k]
              /\ Len(results) = Cardinality(HitsIn(writer.staged, opts.query))

\* the store held documents the query matches; the invocation flushes,
\* commits documents it does not match, and the query finds nothing
C19_Witness ==
    /\ IndexAndQuery /\ opts.doflush
    /\ pc = "exit" /\ exc = "none"
    /\ HitsIn(before.docs, opts.query) # {}
    /\ writer.staged # <<>>
    /\ store.docs = writer.staged
    /\ results = <<>>

=============================================================================
